---- MODULE Spec2Model ----
(***************************************************************************)
(* Walking-network isochrone engine of notebooks/ch6_isochrones.py:        *)
(* _build_graph, _find_origin, _run_dijkstra, _compute_isochrone and       *)
(* _pedshed as a state machine.                                            *)
(*                                                                         *)
(* Units.  A linear-reference position "at" is held as the integer         *)
(* numerator p of p / PosDen.  Segment lengths are metres, walking speeds  *)
(* metres per second, costs and budgets seconds.  The lengths of Lengths   *)
(* are multiples of 2 * PosDen, so that length * span and sub_m / speed    *)
(* are whole numbers and the integer arithmetic below is the arithmetic    *)
(* of the code.  Coordinates are hundredths of a degree, distances of      *)
(* connectors from the study centre hundredths of a millimetre.  Hull and  *)
(* circle areas are in m2, area_ha counts units of 1 / HaDen ha, area_km2  *)
(* and isochrone_area_km2 units of 1 / KmDen km2, and the pedshed ratio is *)
(* in hundredths.                                                          *)
(***************************************************************************)
EXTENDS Integers, Sequences, FiniteSets, TLC

(***************************************************************************)
(* Bounds of the model.                                                    *)
(***************************************************************************)
\* rows of segments_df processed by one build
MaxSegs == 2
\* connector references carried by one segment
MaxRefs == 3
\* positions are 0/PosDen .. PosDen/PosDen
PosDen == 2
\* connectors of the network whose bands are computed alone
MaxPts == 4

Positions == 0..PosDen
Lengths == {0, 300 * PosDen}
Speeds == {1, 2}
Budgets == {0, 300, 600}

\* connector identifiers; "C" is never a key of the table of SpecBuild
Ids == {"A", "B", "C"}
\* Python's order of the identifier strings ("" is the .get default)
IdRank(c) == CASE c = "" -> 0 [] c = "A" -> 1 [] c = "B" -> 2 [] c = "C" -> 3
                  [] c = "D" -> 4 [] c = "E" -> 5 [] OTHER -> 6

\* Python's None, where an identifier is expected
None == "None"
\* Python's None, where a position or a length is expected: no number of
\* the data is negative
NoneNum == -1
\* float("inf"), line 256: above every distance of the model
Inf == 2147483647

(***************************************************************************)
(* Connector table: connector_coords, a dict in insertion order, held as   *)
(* a sequence of <<id, lat, lng>> with pairwise distinct ids.              *)
(***************************************************************************)
Keys(coords) == {coords[i][1] : i \in 1..Len(coords)}

(***************************************************************************)
(* _build_graph, lines 196-204: the references of one row that resolve.    *)
(* A row is [null, connectors, length_m]: null says that the connectors     *)
(* column is None.  An item of connectors is a record holding the keys     *)
(* the dict has; an item that is no dict is [str |-> ...].  A key whose     *)
(* value is None holds NoneNum, and so does length_m when it is None.      *)
(***************************************************************************)
IsDict(item) == "str" \notin DOMAIN item

ItemId(item) ==
  IF "connector_id" \in DOMAIN item THEN item.connector_id
  ELSE IF "id" \in DOMAIN item THEN item.id
  ELSE ""

ItemAt(item) == IF "at" \in DOMAIN item THEN item.at ELSE 0

\* the loop of lines 198-204 without the test of line 202
RECURSIVE ResolveAll(_, _)
ResolveAll(items, coords) ==
  IF items = << >> THEN << >>
  ELSE LET item == Head(items)
           rest == ResolveAll(Tail(items), coords)
       IN IF IsDict(item)
          THEN << <<ItemAt(item), ItemId(item)>> >> \o rest
          ELSE rest

\* the zip of _lrs and _cids after the loop of lines 198-204
RECURSIVE Resolve(_, _)
Resolve(items, coords) ==
  IF items = << >> THEN << >>
  ELSE LET item == Head(items)
           rest == Resolve(Tail(items), coords)
       IN IF IsDict(item) /\ ItemId(item) \in Keys(coords)
          THEN << <<ItemAt(item), ItemId(item)>> >> \o rest
          ELSE rest

(***************************************************************************)
(* sorted(zip(_lrs, _cids)), line 210: tuples compare by position, then    *)
(* by identifier.                                                          *)
(***************************************************************************)
PairLess(p, q) == \/ p[1] < q[1]
                  \/ p[1] = q[1] /\ IdRank(p[2]) < IdRank(q[2])

RECURSIVE InsertPair(_, _)
InsertPair(p, s) ==
  IF s = << >> THEN <<p>>
  ELSE IF PairLess(p, Head(s)) THEN <<p>> \o s
  ELSE <<Head(s)>> \o InsertPair(p, Tail(s))

\* the sort forgotten
UnsortedPairs(s) == s

RECURSIVE SortedPairs(_)
SortedPairs(s) ==
  IF s = << >> THEN << >>
  ELSE InsertPair(s[Len(s)], SortedPairs(SubSeq(s, 1, Len(s) - 1)))

(***************************************************************************)
(* graph[k].append(e) on a defaultdict(list), lines 220-221.               *)
(***************************************************************************)
\* the list assigned instead of appended to
AssignAdj(g, k, e) ==
  IF k \in DOMAIN g THEN [g EXCEPT ![k] = <<e>>]
  ELSE g @@ (k :> <<e>>)

AppendAdj(g, k, e) ==
  IF k \in DOMAIN g THEN [g EXCEPT ![k] = Append(@, e)]
  ELSE g @@ (k :> <<e>>)

\* the shortest positive span is dropped too
SpanSkippedShort(span) == span <= 1

\* line 216: the pair of consecutive connectors is dropped
SpanSkipped(span) == span <= 0

(***************************************************************************)
(* Lines 214-222: the loop over consecutive pairs, from index i on.        *)
(* st is [graph, edge_count, skipped_segments].                            *)
(***************************************************************************)
RECURSIVE AddSubEdges(_, _, _, _, _)
AddSubEdges(st, pairs, i, length, speed) ==
  IF i > Len(pairs) - 1 THEN st
  ELSE LET span == pairs[i + 1][1] - pairs[i][1]
           sub_m == (length * span) \div PosDen
           cost == sub_m \div speed
           a == pairs[i][2]
           b == pairs[i + 1][2]
           g1 == AppendAdj(st.graph, a, <<b, cost, sub_m>>)
           g2 == AppendAdj(g1, b, <<a, cost, sub_m>>)
       IN IF SpanSkipped(span)
          THEN AddSubEdges(st, pairs, i + 1, length, speed)
          ELSE AddSubEdges([st EXCEPT !.graph = g2, !.edge_count = @ + 1],
                           pairs, i + 1, length, speed)

\* line 204: float(_l) of a reference that resolves and whose "at" is None
AtRaises(items, coords) ==
  \E i \in 1..Len(items) :
    /\ IsDict(items[i])
    /\ ItemId(items[i]) \in Keys(coords)
    /\ ItemAt(items[i]) = NoneNum

\* line 218: _length * _span with _length None, which the first pair with a
\* positive span reaches
LengthRaises(row, coords) ==
  /\ row.length_m = NoneNum
  /\ LET pairs == SortedPairs(Resolve(row.connectors, coords))
     IN \E i \in 1..(Len(pairs) - 1) : ~SpanSkipped(pairs[i + 1][1] - pairs[i][1])

\* the iteration on the row raises TypeError: the row has passed the test
\* of line 192, and line 204 or, after it, line 218 raises
RowRaises(row, coords) ==
  /\ ~row.null
  /\ Len(row.connectors) >= 2
  /\ \/ AtRaises(row.connectors, coords)
     \/ LengthRaises(row, coords)

\* the outcome of an iteration that has raised
TypeError == [raised |-> "TypeError"]

\* the check of line 206 left out
TooFewRaw(row, coords) ==
  \/ row.null
  \/ Len(row.connectors) < 2

\* lines 192 and 206: the row is skipped
TooFewRefs(row, coords) ==
  \/ row.null
  \/ Len(row.connectors) < 2
  \/ Len(Resolve(row.connectors, coords)) < 2

(***************************************************************************)
(* Lines 188-222: one iteration of the loop over segments_df.              *)
(***************************************************************************)
BuildRow(st, row, coords, speed) ==
  IF RowRaises(row, coords) THEN TypeError
  ELSE IF TooFewRefs(row, coords)
  THEN [st EXCEPT !.skipped_segments = @ + 1]
  ELSE AddSubEdges(st, SortedPairs(Resolve(row.connectors, coords)), 1,
                   row.length_m, speed)

(***************************************************************************)
(* _find_origin, lines 243-253: _haversine_m on coordinates in hundredths  *)
(* of a degree with latitudes in -1..1, in hundredths of a millimetre (the *)
(* code's float result rounded; distinct results stay distinct, equal ones *)
(* equal).                                                                 *)
(***************************************************************************)
Abs(x) == IF x < 0 THEN -x ELSE x

Haversine(lat1, lng1, lat2, lng2) ==
  LET dlat == Abs(lat2 - lat1)
      dlng == Abs(lng2 - lng1)
  IN CASE dlat = 0 /\ dlng = 0 -> 0
       [] dlat = 0 /\ dlng = 1 /\ lat1 = 0 -> 111194927
       [] dlat = 0 /\ dlng = 1 /\ lat1 # 0 -> 111194925
       [] dlat = 1 /\ dlng = 0 -> 111194927
       [] dlat = 1 /\ dlng = 1 -> 157253373
       [] dlat = 2 /\ dlng = 0 -> 222389853
       [] dlat = 2 /\ dlng = 1 -> 248639414

\* <= for <
CloserOrEqual(d, best) == d <= best

\* line 259: the connector replaces the best one so far
Closer(d, best) == d < best

(***************************************************************************)
(* Lines 257-261: one iteration of the loop over connector_coords.items(). *)
(* o is [origin_id, origin_dist].                                          *)
(***************************************************************************)
OriginIter(o, entry, lat, lng) ==
  LET d == Haversine(lat, lng, entry[2], entry[3])
  IN IF Closer(d, o.origin_dist)
     THEN [origin_id |-> entry[1], origin_dist |-> d]
     ELSE o

(***************************************************************************)
(* _run_dijkstra.  _pq is a heap of (cost, node) tuples; it is held as the *)
(* bag of its entries, a function from <<cost, node>> to the number of     *)
(* copies.  reachable is a dict in insertion order, held as the sequence   *)
(* of its <<node, cost>> items.                                            *)
(***************************************************************************)
EmptyBag == << >>

\* d[k] = v on a dict, line 292
DictSet(d, k, v) ==
  IF \E i \in 1..Len(d) : d[i][1] = k
  THEN [i \in 1..Len(d) |-> IF d[i][1] = k THEN <<k, v>> ELSE d[i]]
  ELSE Append(d, <<k, v>>)

\* the items of a dict, without their order
Items(d) == {d[i] : i \in 1..Len(d)}

BagAdd(bag, e) ==
  IF e \in DOMAIN bag THEN [bag EXCEPT ![e] = @ + 1] ELSE bag @@ (e :> 1)

\* a pop that leaves the entry in the heap
BagKeep(bag, e) == bag

BagRemove(bag, e) ==
  IF bag[e] > 1 THEN [bag EXCEPT ![e] = @ - 1]
  ELSE [x \in DOMAIN bag \ {e} |-> bag[x]]

\* tuple order of (cost, node): what heapq compares
EntryLess(e, f) == \/ e[1] < f[1]
                   \/ e[1] = f[1] /\ IdRank(e[2]) < IdRank(f[2])

\* a heap that returns its largest entry
HeapMax(bag) == CHOOSE e \in DOMAIN bag : \A f \in DOMAIN bag : ~EntryLess(e, f)

\* heapq.heappop, line 286: the smallest entry
HeapMin(bag) == CHOOSE e \in DOMAIN bag : \A f \in DOMAIN bag : ~EntryLess(f, e)

\* a pop that returns any entry
AnyEntries(bag) == DOMAIN bag

\* the entries of least cost, whatever their node
MinCostEntries(bag) == {e \in DOMAIN bag : \A f \in DOMAIN bag : e[1] <= f[1]}

\* line 290: a popped entry beyond the budget is not recorded
OverBudget(cost, budget) == cost > budget

\* < for <=
PushAllowedStrict(nc, budget) == nc < budget

\* the cutoff of line 296 left out
PushAlways(nc, budget) == TRUE

\* line 296: the neighbour is pushed
PushAllowed(nc, budget) == nc <= budget

\* lines 293-297: the loop over graph.get(_node, []), from index i on
RECURSIVE PushNeighbours(_, _, _, _, _, _)
PushNeighbours(bag, adj, i, cost, vis, budget) ==
  IF i > Len(adj) THEN bag
  ELSE LET nb == adj[i][1]
           nc == cost + adj[i][2]
       IN IF nb \notin vis /\ PushAllowed(nc, budget)
          THEN PushNeighbours(BagAdd(bag, <<nc, nb>>), adj, i + 1, cost, vis, budget)
          ELSE PushNeighbours(bag, adj, i + 1, cost, vis, budget)

\* graph.get(_node, []), line 293
GraphGet(g, n) == IF n \in DOMAIN g THEN g[n] ELSE << >>

\* graph[_node] on the defaultdict: a missing key gets an empty list
GraphAfterIndex(g, n) == IF n \in DOMAIN g THEN g ELSE g @@ (n :> << >>)

\* the graph after graph.get(_node, []), line 293: get adds no key
GraphAfterGet(g, n) == g

\* the test of line 287 left out
AlreadyVisitedNever(node, vis) == FALSE

\* line 287: the popped entry is a stale duplicate
AlreadyVisited(node, vis) == node \in vis

\* len(_pq): the entries of the heap, duplicates counted
RECURSIVE BagSize(_)
BagSize(bag) ==
  IF DOMAIN bag = {} THEN 0
  ELSE LET e == CHOOSE x \in DOMAIN bag : TRUE
       IN bag[e] + BagSize([x \in DOMAIN bag \ {e} |-> bag[x]])

(***************************************************************************)
(* Lines 286-297: one iteration of the while loop, e being the entry that  *)
(* heappop returns.  s is [pq, reachable, visited].                        *)
(***************************************************************************)
DijkstraIter(s, e, g, budget) ==
  LET cost == e[1]
      node == e[2]
      pq1 == BagRemove(s.pq, e)
      vis1 == s.visited \cup {node}
  IN IF AlreadyVisited(node, s.visited) THEN [s EXCEPT !.pq = pq1]
     ELSE IF OverBudget(cost, budget) THEN [s EXCEPT !.pq = pq1, !.visited = vis1]
     ELSE [pq |-> PushNeighbours(pq1, GraphGet(g, node), 1, cost, vis1, budget),
           reachable |-> DictSet(s.reachable, node, cost),
           visited |-> vis1]

\* lines 281-283
DijkstraStart(origin) ==
  [pq |-> BagAdd(EmptyBag, <<0, origin>>), reachable |-> << >>, visited |-> {}]

\* lines 285-297: the whole loop
RECURSIVE RunLoop(_, _, _)
RunLoop(s, g, budget) ==
  IF DOMAIN s.pq = {} THEN s
  ELSE RunLoop(DijkstraIter(s, HeapMin(s.pq), g, budget), g, budget)

RunDijkstra(g, origin, budget) == RunLoop(DijkstraStart(origin), g, budget).reachable

(***************************************************************************)
(* _find_origin, line 263: connector_coords[origin_id].  The subscript     *)
(* raises KeyError when origin_id is not a key of the table, which ends    *)
(* the cell; the cells that depend on it do not run.                       *)
(***************************************************************************)
\* a lookup that returns for every key
LookupAlways(oid, coords) == TRUE

LookupSucceeds(oid, coords) == oid \in Keys(coords)

CoordsOf(coords, id) ==
  LET i == CHOOSE j \in 1..Len(coords) : coords[j][1] = id
  IN <<coords[i][2], coords[i][3]>>

(***************************************************************************)
(* _run_dijkstra, lines 299-308: reachable_points, one record per entry of *)
(* reachable whose node is in the table, in the order of reachable, from   *)
(* index i on.  cost_min, the same cost in minutes, is read by no cell     *)
(* modelled here and is left out of the record.                            *)
(***************************************************************************)
RECURSIVE ReachablePoints(_, _, _)
ReachablePoints(reach, i, coords) ==
  IF i > Len(reach) THEN << >>
  ELSE LET k == reach[i][1]
           rest == ReachablePoints(reach, i + 1, coords)
       IN IF k \in Keys(coords)
            THEN <<[id |-> k, lat |-> CoordsOf(coords, k)[1],
                    lng |-> CoordsOf(coords, k)[2], cost_s |-> reach[i][2]]>>
                   \o rest
            ELSE rest

(***************************************************************************)
(* _compute_isochrone, lines 331-338: the thresholds _bands, in minutes.   *)
(***************************************************************************)
\* line 331
BandMinutes == <<5, 10, 15, 20>>

Least(S) == CHOOSE x \in S : \A y \in S : x <= y

\* sorted(set(...))
RECURSIVE SortedList(_)
SortedList(S) ==
  IF S = {} THEN << >>
  ELSE <<Least(S)>> \o SortedList(S \ {Least(S)})

\* s.append(x) followed by s.sort(), s being sorted
InsertSorted(s, x) ==
  LET below == SelectSeq(s, LAMBDA y : y <= x)
      above == SelectSeq(s, LAMBDA y : y > x)
  IN below \o <<x>> \o above

\* line 332
DefaultBands(budget) ==
  SortedList({BandMinutes[i] : i \in {j \in 1..Len(BandMinutes) :
                                         BandMinutes[j] * 60 <= budget}})

\* line 333: int(walk_budget_s / 60), of a budget that is not negative
BudgetMin(budget) == budget \div 60

\* the budget's minutes appended although already a threshold
BandThresholdsDup(budget) == InsertSorted(DefaultBands(budget), BudgetMin(budget))

\* the default thresholds alone, the budget's minutes never appended
BandThresholdsDefault(budget) == DefaultBands(budget)

\* lines 332-338
BandThresholds(budget) ==
  LET b == DefaultBands(budget)
      m == BudgetMin(budget)
  IN IF m \notin {b[i] : i \in 1..Len(b)} THEN InsertSorted(b, m) ELSE b

(***************************************************************************)
(* _compute_isochrone, lines 340-365: the loop over _bands.                *)
(***************************************************************************)
\* the points below the threshold, without those at it
PointsWithinStrict(points, bs) == SelectSeq(points, LAMBDA p : p.cost_s < bs)

\* line 342
PointsWithin(points, bs) == SelectSeq(points, LAMBDA p : p.cost_s <= bs)

\* no threshold is skipped
BandTooSmallNever(n) == FALSE

\* two points are enough
BandTooSmallTwo(n) == n < 2

\* line 343
BandTooSmall(n) == n < 3

PointIds(pts) == {pts[i].id : i \in 1..Len(pts)}

\* units of area_km2 and of isochrone_area_km2 in one square kilometre
KmDen == 1000000
\* units of area_ha in one hectare
HaDen == 10000
\* the area in m2 of a triangle whose legs are a hundredth of a degree of
\* latitude and a hundredth of a degree of longitude at the equator
TriangleArea == 615450

\* twice the signed area of the triangle o, a, b; a point is <<lng, lat>>
Cross(o, a, b) ==
  (a[1] - o[1]) * (b[2] - o[2]) - (a[2] - o[2]) * (b[1] - o[1])

\* r, a point of the line through p and q, lies between p and q
Between(p, q, r) ==
  (r[1] - p[1]) * (r[1] - q[1]) + (r[2] - p[2]) * (r[2] - q[2]) <= 0

\* ST_ConvexHull, lines 352-353: the edges of the hull of the points P,
\* counter-clockwise; an edge has every other point on its left or on it.
\* The hull of points on one line is the segment between the outermost two,
\* there and back.
HullEdges(P) ==
  {e \in P \X P :
     /\ e[1] # e[2]
     /\ \A r \in P : \/ Cross(e[1], e[2], r) > 0
                     \/ (Cross(e[1], e[2], r) = 0 /\ Between(e[1], e[2], r))}

\* twice the area enclosed by the edges E
RECURSIVE EdgeSum(_)
EdgeSum(E) ==
  IF E = {} THEN 0
  ELSE LET e == CHOOSE x \in E : TRUE
       IN (e[1][1] * e[2][2] - e[2][1] * e[1][2]) + EdgeSum(E \ {e})

\* The area that ST_Area_Spheroid returns for the convex hull of pts (lines
\* 349-357), in m2.  The spatial extension is outside the repository; the
\* model takes the area of the hull in the grid of the coordinates, which
\* is that on the spheroid near the equator up to the rounding: 0 for
\* fewer than 3 points and for points on one line, the same for point
\* lists with the same hull, never smaller for more points.
HullArea(pts) ==
  TriangleArea * EdgeSum(HullEdges({<<pts[i].lng, pts[i].lat>> : i \in 1..Len(pts)}))

\* None as the value of geojson; a hull is held as the set of its points
GeoNone == {}

\* the except branch that leaves the area of the hull in _am
GeoResultStale(pts, ok) ==
  IF ok THEN [geojson |-> PointIds(pts), area_m2 |-> HullArea(pts)]
  ELSE [geojson |-> GeoNone, area_m2 |-> HullArea(pts)]

\* lines 349-359: _gj and _am after the try statement; ok tells whether
\* conn.execute(...).fetchone() returned or raised
GeoResult(pts, ok) ==
  IF ok THEN [geojson |-> PointIds(pts), area_m2 |-> HullArea(pts)]
  ELSE [geojson |-> GeoNone, area_m2 |-> 0]

\* lines 360-365: _am / 1_000_000 in units of 1 / KmDen km2 and
\* _am / 10_000 in units of 1 / HaDen ha; nothing is rounded
BandRecord(bm, pts, res) ==
  [band_min |-> bm, band_s |-> bm * 60, node_count |-> Len(pts),
   area_m2 |-> res.area_m2,
   area_km2 |-> res.area_m2 * (KmDen \div 1000000),
   area_ha |-> res.area_m2 * (HaDen \div 10000), geojson |-> res.geojson]

\* the record put in front of the list instead of at its end
BandIterPrepend(st, bm, points, ok) ==
  LET pts == PointsWithin(points, bm * 60)
  IN IF BandTooSmall(Len(pts)) THEN st
     ELSE [isochrone_bands |->
             <<BandRecord(bm, pts, GeoResult(pts, ok))>> \o st.isochrone_bands,
           geo_calls |-> st.geo_calls + 1,
           band_pts |-> <<PointIds(pts)>> \o st.band_pts]

\* lines 340-365: one iteration of the loop, on threshold bm.  geo_calls
\* counts the calls of conn.execute and band_pts keeps the identifiers of
\* _pts beside every record appended; the code holds neither.
BandIter(st, bm, points, ok) ==
  LET pts == PointsWithin(points, bm * 60)
  IN IF BandTooSmall(Len(pts)) THEN st
     ELSE [isochrone_bands |->
             Append(st.isochrone_bands, BandRecord(bm, pts, GeoResult(pts, ok))),
           geo_calls |-> st.geo_calls + 1,
           band_pts |-> Append(st.band_pts, PointIds(pts))]

\* the area of the first band instead of the last
IsochroneAreaFirst(bands) ==
  IF bands # << >> THEN bands[1].area_km2 ELSE 0

\* lines 367-370
IsochroneArea(bands) ==
  IF bands # << >> THEN bands[Len(bands)].area_km2 ELSE 0

(***************************************************************************)
(* Parameters cell, lines 97-101, and utils/overture.py, lines 167-179:    *)
(* circle_area_km2 = pi * walk_range_m ** 2 / 1_000_000, held in square    *)
(* metres (millionths of a square kilometre) and rounded down.             *)
(***************************************************************************)
\* math.pi - 3 = 0.14159265358979..., two decimals at a time
PiDigits == <<14, 15, 92, 65, 35, 89, 79>>

\* n * 0.d[i]d[i+1]... rounded down, for the pairs of PiDigits from i on
RECURSIVE PiFraction(_, _)
PiFraction(n, i) ==
  IF i > Len(PiDigits) THEN 0
  ELSE (n * PiDigits[i] + PiFraction(n, i + 1)) \div 100

\* math.pi * (speed * budget) ** 2, rounded down
CircleArea(speed, budget) ==
  LET n == (speed * budget) * (speed * budget)
  IN 3 * n + PiFraction(n, 1)

(***************************************************************************)
(* _pedshed, line 393: pedshed_ratio, held in hundredths and rounded down. *)
(* iso is in units of 1 / KmDen km2, circle in square metres.              *)
(***************************************************************************)
\* the ratio cut at 1
PedshedRatioClamped(iso, circle) ==
  IF circle > 0
    THEN IF (iso * 100 * (1000000 \div KmDen)) \div circle > 100 THEN 100
         ELSE (iso * 100 * (1000000 \div KmDen)) \div circle
    ELSE 0

\* (iso / KmDen) / (circle / 1000000), in hundredths
PedshedRatio(iso, circle) ==
  IF circle > 0 THEN (iso * 100 * (1000000 \div KmDen)) \div circle ELSE 0

(***************************************************************************)
(* Inputs.                                                                 *)
(***************************************************************************)
SeqsUpTo(S, n) == UNION {[1..k -> S] : k \in 0..n}

\* connector references as the data source writes them, and malformed
\* ones: a key missing, "at" None, an item that is no dict
WideItems ==
  [connector_id : Ids, at : Positions]
    \cup {[connector_id |-> "A"], [id |-> "B", at |-> PosDen], [str |-> "A"],
          [connector_id |-> "A", at |-> NoneNum],
          [connector_id |-> "C", at |-> NoneNum]}

\* every kind of row: connectors None, any references, length_m a number
\* or None
WideSegments ==
  {[null |-> TRUE, connectors |-> << >>, length_m |-> 300 * PosDen]}
    \cup {[null |-> FALSE, connectors |-> c, length_m |-> l] :
            c \in SeqsUpTo(WideItems, MaxRefs), l \in Lengths \cup {NoneNum}}

\* a null row, and the well-formed rows: every reference a dict, positions
\* ascending from 0 to 1
NarrowSegments ==
  {[null |-> TRUE, connectors |-> << >>, length_m |-> 300 * PosDen]} \cup
  {[null |-> FALSE, connectors |-> c, length_m |-> l] :
     c \in {d \in SeqsUpTo([connector_id : Ids, at : Positions], MaxRefs) :
              /\ Len(d) >= 2
              /\ d[1].at = 0
              /\ d[Len(d)].at = PosDen
              /\ \A i \in 1..(Len(d) - 1) : d[i].at < d[i + 1].at},
     l \in Lengths}

Lats == {-1, 0, 1}
Lngs == {0, 1}

\* the table of the build alone: "C" does not resolve
BuildTable == << <<"A", 0, 0>>, <<"B", 1, 0>> >>
\* the table of the whole pipeline
PipeTable == << <<"A", 0, 0>>, <<"B", 1, 0>>, <<"C", 0, 1>> >>
\* the tables of the pipeline: the whole one, one without "C", the empty one
PipeTables == {PipeTable, BuildTable, << >>}
PipeStudies == {<<0, 0>>, <<1, 0>>, <<0, 1>>}

\* every non-empty table: distinct identifiers in any order, any coordinates
OriginTables ==
  {t \in SeqsUpTo(Ids \X Lats \X Lngs, Cardinality(Ids)) :
     /\ Len(t) >= 1
     /\ \A i, j \in 1..Len(t) : i # j => t[i][1] # t[j][1]}

\* The networks whose bands are computed alone: stars around "A", the edge
\* to the i-th connector costing cost[i] seconds.
BandIds == <<"A", "B", "C", "D", "E">>
BandCosts == {0, 150, 300, 320, 450, 630}
\* walk_minutes * 60 for positions 5, 7, 10, 11, 15 and 20 of the slider,
\* which runs from 5 to 20 in whole minutes
BandBudgets == {300, 420, 600, 660, 900, 1200}
StarTable == [i \in 1..MaxPts |-> <<BandIds[i], ((i - 1) % 3) - 1, (i - 1) \div 3>>]
StarGraph(cost, speed) ==
  [k \in {BandIds[i] : i \in 1..MaxPts} |->
     IF k = "A"
       THEN [j \in 1..(MaxPts - 1) |->
               <<BandIds[j + 1], cost[j + 1], cost[j + 1] * speed>>]
       ELSE LET i == CHOOSE j \in 2..MaxPts : BandIds[j] = k
            IN << <<"A", cost[i], cost[i] * speed>> >>]

\* the last row of the whole pipeline: every kind of row, those that raise
\* among them, with fewer references than MaxRefs (the rows before it carry
\* up to MaxRefs)
LiveSegments ==
  {[null |-> TRUE, connectors |-> << >>, length_m |-> 300 * PosDen]}
    \cup {[null |-> FALSE, connectors |-> c, length_m |-> l] :
            c \in SeqsUpTo(WideItems, MaxRefs - 1), l \in Lengths \cup {NoneNum}}

NoRow == [null |-> TRUE, connectors |-> << >>, length_m |-> 0]

(***************************************************************************)
(* State.                                                                  *)
(***************************************************************************)
VARIABLES
  pc,                \* the cell that runs, or the loop it is in
  connector_coords,  \* the Connector Table
  walk_speed_ms,
  walk_budget_s,
  study,             \* <<study_lat, study_lng>>
  rows_done,         \* rows of segments_df consumed by _build_graph
  cur_row,           \* _r, the row of the iteration that ran last
  graph,
  edge_count,
  skipped_segments,
  graph_node_count,
  oi,                \* items of connector_coords consumed by _find_origin
  origin_id,
  origin_dist,
  pq,                \* _pq
  reachable,
  visited,           \* _visited
  reachable_count,
  nodes_explored,
  pops,              \* calls of heapq.heappop made by _run_dijkstra
  pushes,            \* entries ever put in _pq, the first one included
  reachable_points,
  bands,             \* _bands
  bi,                \* thresholds of _bands consumed by _compute_isochrone
  isochrone_bands,
  geo_calls,         \* calls of conn.execute made by _compute_isochrone
  band_pts,          \* the identifiers of _pts of every band appended
  isochrone_area_km2,
  pedshed_ratio      \* in hundredths

vars == <<pc, connector_coords, walk_speed_ms, walk_budget_s, study, rows_done,
          cur_row, graph, edge_count, skipped_segments, graph_node_count, oi,
          origin_id, origin_dist, pq, reachable, visited, reachable_count,
          nodes_explored, pops, pushes, reachable_points, bands, bi,
          isochrone_bands,
          geo_calls, band_pts, isochrone_area_km2, pedshed_ratio>>

inputVars == <<connector_coords, walk_speed_ms, walk_budget_s, study>>
buildVars == <<rows_done, cur_row, graph, edge_count, skipped_segments, graph_node_count>>
originVars == <<oi, origin_id, origin_dist>>
searchVars == <<pq, reachable, visited, reachable_count, nodes_explored,
                pops, pushes, reachable_points>>
bandVars == <<bands, bi, isochrone_bands, geo_calls, band_pts,
              isochrone_area_km2>>
ratioVars == <<pedshed_ratio>>

\* everything but the inputs, before any cell has run
Fresh ==
  /\ rows_done = 0
  /\ cur_row = NoRow
  /\ graph = << >>
  /\ edge_count = 0
  /\ skipped_segments = 0
  /\ graph_node_count = 0
  /\ oi = 0
  /\ origin_id = None
  /\ origin_dist = Inf
  /\ pq = EmptyBag
  /\ reachable = << >>
  /\ visited = {}
  /\ reachable_count = 0
  /\ nodes_explored = 0
  /\ pops = 0
  /\ pushes = 0
  /\ reachable_points = << >>
  /\ bands = << >>
  /\ bi = 0
  /\ isochrone_bands = << >>
  /\ geo_calls = 0
  /\ band_pts = << >>
  /\ isochrone_area_km2 = 0
  /\ pedshed_ratio = 0

\* the pipeline on well-formed segments
Init ==
  /\ pc = "build"
  /\ connector_coords \in PipeTables
  /\ walk_speed_ms \in Speeds
  /\ walk_budget_s \in Budgets
  /\ study \in PipeStudies
  /\ Fresh

\* the build alone, on every kind of row
InitBuild ==
  /\ pc = "build"
  /\ connector_coords = BuildTable
  /\ walk_speed_ms \in Speeds
  /\ walk_budget_s = 600
  /\ study = <<0, 0>>
  /\ Fresh

\* the origin locator alone, on every table and query point
InitOrigin ==
  /\ pc = "origin"
  /\ connector_coords \in OriginTables \cup {<< >>}
  /\ walk_speed_ms = 1
  /\ walk_budget_s = 600
  /\ study \in Lats \X Lngs
  /\ Fresh

\* the pipeline on every kind of row, with and without "C" in the table
InitLive ==
  /\ pc = "build"
  /\ connector_coords \in PipeTables
  /\ walk_speed_ms = 1
  /\ walk_budget_s \in {300, 600}
  /\ study = <<0, 0>>
  /\ Fresh

\* the bands and the ratio alone, after the search from "A" on a star
InitBands ==
  /\ pc = "isochrone"
  /\ connector_coords = StarTable
  /\ walk_speed_ms \in Speeds
  /\ walk_budget_s \in BandBudgets
  /\ study = <<StarTable[1][2], StarTable[1][3]>>
  /\ rows_done = MaxPts - 1
  /\ cur_row = NoRow
  /\ \E cost \in [2..MaxPts -> BandCosts] :
       /\ graph = StarGraph(cost, walk_speed_ms)
       /\ LET s == RunLoop(DijkstraStart("A"), graph, walk_budget_s)
          IN /\ pq = s.pq
             /\ reachable = s.reachable
             /\ visited = s.visited
             /\ pops = Len(s.reachable)
             /\ pushes = Len(s.reachable)
  /\ edge_count = MaxPts - 1
  /\ skipped_segments = 0
  /\ graph_node_count = MaxPts
  /\ oi = MaxPts
  /\ origin_id = "A"
  /\ origin_dist = 0
  /\ reachable_count = Len(reachable)
  /\ nodes_explored = Cardinality(visited)
  /\ reachable_points = ReachablePoints(reachable, 1, connector_coords)
  /\ bands = << >>
  /\ bi = 0
  /\ isochrone_bands = << >>
  /\ geo_calls = 0
  /\ band_pts = << >>
  /\ isochrone_area_km2 = 0
  /\ pedshed_ratio = 0

(***************************************************************************)
(* _build_graph.                                                           *)
(***************************************************************************)
\* lines 188-222: the loop body on the next row, drawn from rows
BuildSegment(rows) ==
  /\ pc = "build"
  /\ rows_done < MaxSegs
  /\ \E row \in rows :
       LET st == BuildRow([graph |-> graph, edge_count |-> edge_count,
                           skipped_segments |-> skipped_segments],
                          row, connector_coords, walk_speed_ms)
       IN /\ cur_row' = row
          /\ IF st = TypeError
             THEN \* the exception leaves the cell: no graph is returned
                  /\ pc' = "error"
                  /\ UNCHANGED <<rows_done, graph, edge_count, skipped_segments>>
             ELSE /\ graph' = st.graph
                  /\ edge_count' = st.edge_count
                  /\ skipped_segments' = st.skipped_segments
                  /\ rows_done' = rows_done + 1
                  /\ pc' = pc
  /\ UNCHANGED <<graph_node_count, inputVars, originVars, searchVars,
                 bandVars, ratioVars>>

\* lines 224-236: segments_df is exhausted
BuildFinish ==
  /\ pc = "build"
  /\ graph_node_count' = Cardinality(DOMAIN graph)
  /\ cur_row' = NoRow
  /\ pc' = "origin"
  /\ UNCHANGED <<rows_done, graph, edge_count, skipped_segments, inputVars,
                 originVars, searchVars, bandVars, ratioVars>>

(***************************************************************************)
(* _find_origin.                                                           *)
(***************************************************************************)
\* lines 257-261
OriginStep ==
  /\ pc = "origin"
  /\ oi < Len(connector_coords)
  /\ LET o == OriginIter([origin_id |-> origin_id, origin_dist |-> origin_dist],
                         connector_coords[oi + 1], study[1], study[2])
     IN /\ origin_id' = o.origin_id
        /\ origin_dist' = o.origin_dist
  /\ oi' = oi + 1
  /\ UNCHANGED <<pc, inputVars, buildVars, searchVars, bandVars, ratioVars>>

\* lines 263-271: the origin's coordinates are looked up and the cell returns
OriginFinish ==
  /\ pc = "origin"
  /\ oi = Len(connector_coords)
  /\ LookupSucceeds(origin_id, connector_coords)
  /\ pc' = "dijkstra_start"
  /\ UNCHANGED <<inputVars, buildVars, originVars, searchVars, bandVars, ratioVars>>

\* line 263 raises KeyError: the cell fails and no later cell runs
OriginFail ==
  /\ pc = "origin"
  /\ oi = Len(connector_coords)
  /\ ~LookupSucceeds(origin_id, connector_coords)
  /\ pc' = "error"
  /\ UNCHANGED <<inputVars, buildVars, originVars, searchVars, bandVars, ratioVars>>

(***************************************************************************)
(* _run_dijkstra.                                                          *)
(***************************************************************************)
\* lines 281-283
SearchStart ==
  /\ pc = "dijkstra_start"
  /\ LET s == DijkstraStart(origin_id)
     IN /\ pq' = s.pq
        /\ reachable' = s.reachable
        /\ visited' = s.visited
        /\ pushes' = BagSize(s.pq)
  /\ pops' = 0
  /\ pc' = "dijkstra"
  /\ UNCHANGED <<inputVars, buildVars, originVars, reachable_count, nodes_explored,
                 reachable_points, bandVars, ratioVars>>

\* the loop body of lines 286-297 once heappop has returned e
SearchIter(e) ==
  LET s == DijkstraIter([pq |-> pq, reachable |-> reachable, visited |-> visited],
                        e, graph, walk_budget_s)
  IN /\ pq' = s.pq
     /\ reachable' = s.reachable
     /\ visited' = s.visited
     /\ pops' = pops + 1
     /\ pushes' = pushes + (BagSize(s.pq) - (BagSize(pq) - 1))
     /\ graph' = IF AlreadyVisited(e[2], visited) \/ OverBudget(e[1], walk_budget_s)
                   THEN graph
                   ELSE GraphAfterGet(graph, e[2])
     /\ UNCHANGED <<pc, inputVars, rows_done, cur_row, edge_count, skipped_segments,
                    graph_node_count, originVars, reachable_count,
                    nodes_explored, reachable_points, bandVars, ratioVars>>

\* lines 285-297: one iteration of the while loop
SearchStep ==
  /\ pc = "dijkstra"
  /\ DOMAIN pq # {}
  /\ SearchIter(HeapMin(pq))

\* the same iteration with a heap that breaks cost ties in any way
SearchStepAnyTie ==
  /\ pc = "dijkstra"
  /\ DOMAIN pq # {}
  /\ \E e \in MinCostEntries(pq) : SearchIter(e)

\* lines 299-312: the loop has ended
SearchFinish ==
  /\ pc = "dijkstra"
  /\ DOMAIN pq = {}
  /\ reachable_points' = ReachablePoints(reachable, 1, connector_coords)
  /\ reachable_count' = Len(reachable)
  /\ nodes_explored' = Cardinality(visited)
  /\ pc' = "isochrone"
  /\ UNCHANGED <<inputVars, buildVars, originVars, pq, reachable, visited,
                 pops, pushes, bandVars, ratioVars>>

(***************************************************************************)
(* _compute_isochrone.                                                     *)
(***************************************************************************)
\* lines 331-339
BandsStart ==
  /\ pc = "isochrone"
  /\ bands' = BandThresholds(walk_budget_s)
  /\ bi' = 0
  /\ isochrone_bands' = << >>
  /\ pc' = "bands"
  /\ UNCHANGED <<inputVars, buildVars, originVars, searchVars, geo_calls,
                 band_pts, isochrone_area_km2, ratioVars>>

\* lines 340-365: one iteration of the loop over _bands; the call of the
\* spatial extension returns or raises
BandStep ==
  /\ pc = "bands"
  /\ bi < Len(bands)
  /\ \E ok \in BOOLEAN :
       LET st == BandIter([isochrone_bands |-> isochrone_bands,
                           geo_calls |-> geo_calls, band_pts |-> band_pts],
                          bands[bi + 1], reachable_points, ok)
       IN /\ isochrone_bands' = st.isochrone_bands
          /\ geo_calls' = st.geo_calls
          /\ band_pts' = st.band_pts
  /\ bi' = bi + 1
  /\ UNCHANGED <<pc, inputVars, buildVars, originVars, searchVars, bands,
                 isochrone_area_km2, ratioVars>>

\* lines 367-386: _bands is exhausted
BandsFinish ==
  /\ pc = "bands"
  /\ bi = Len(bands)
  /\ isochrone_area_km2' = IsochroneArea(isochrone_bands)
  /\ pc' = "pedshed"
  /\ UNCHANGED <<inputVars, buildVars, originVars, searchVars, bands, bi,
                 isochrone_bands, geo_calls, band_pts, ratioVars>>

(***************************************************************************)
(* _pedshed.                                                               *)
(***************************************************************************)
\* lines 393-426
Pedshed ==
  /\ pc = "pedshed"
  /\ pedshed_ratio' = PedshedRatio(isochrone_area_km2,
                                   CircleArea(walk_speed_ms, walk_budget_s))
  /\ pc' = "done"
  /\ UNCHANGED <<inputVars, buildVars, originVars, searchVars, bandVars>>

(***************************************************************************)
(* Specifications.                                                         *)
(***************************************************************************)
Next ==
  \/ BuildSegment(NarrowSegments)
  \/ BuildFinish
  \/ OriginStep
  \/ OriginFinish
  \/ OriginFail
  \/ SearchStart
  \/ SearchStep
  \/ SearchFinish
  \/ BandsStart
  \/ BandStep
  \/ BandsFinish
  \/ Pedshed

Spec == Init /\ [][Next]_vars

NextTies ==
  \/ BuildSegment(NarrowSegments)
  \/ BuildFinish
  \/ OriginStep
  \/ OriginFinish
  \/ OriginFail
  \/ SearchStart
  \/ SearchStepAnyTie
  \/ SearchFinish

SpecTies == Init /\ [][NextTies]_vars

\* the last row of segments_df is any row, the rows before it are narrow
NextBuild ==
  \/ BuildSegment(IF rows_done + 1 < MaxSegs THEN NarrowSegments ELSE WideSegments)
  \/ BuildFinish

SpecBuild == InitBuild /\ [][NextBuild]_vars

NextOrigin ==
  \/ OriginStep
  \/ OriginFinish
  \/ OriginFail

SpecOrigin == InitOrigin /\ [][NextOrigin]_vars

\* the steps of the pipeline but the reading of one more row
Advance ==
  \/ BuildFinish
  \/ OriginStep
  \/ OriginFinish
  \/ OriginFail
  \/ SearchStart
  \/ SearchStep
  \/ SearchFinish
  \/ BandsStart
  \/ BandStep
  \/ BandsFinish
  \/ Pedshed

\* the whole pipeline, the last row being any row
NextLive ==
  \/ BuildSegment(IF rows_done + 1 < MaxSegs THEN NarrowSegments ELSE LiveSegments)
  \/ Advance

\* The cells run one after the other and every loop goes on until its input
\* is exhausted: segments_df is finite, so the build ends, and after it a
\* step that can be taken is taken.
SpecLive == InitLive /\ [][NextLive]_vars /\ WF_vars(Advance)

NextBands ==
  \/ BandsStart
  \/ BandStep
  \/ BandsFinish
  \/ Pedshed

SpecBands == InitBands /\ [][NextBands]_vars

(***************************************************************************)
(* Reference definitions for the properties.                               *)
(***************************************************************************)
SearchEnded == pc = "isochrone"

\* the directed edges <<from, to, cost>> of a graph
EdgesOf(g) ==
  UNION {{<<a, g[a][i][1], g[a][i][2]>> : i \in 1..Len(g[a])} : a \in DOMAIN g}

NodesOf(g, o) == DOMAIN g \cup {o} \cup {e[2] : e \in EdgesOf(g)}

SetMin(S) == CHOOSE x \in S : \A y \in S : x <= y
SetMax(S) == CHOOSE x \in S : \A y \in S : y <= x

\* Bellman-Ford: k rounds of relaxation of the distances d
RECURSIVE Relaxed(_, _, _)
Relaxed(d, g, k) ==
  IF k = 0 THEN d
  ELSE Relaxed([n \in DOMAIN d |->
                  SetMin({d[n]} \cup {d[e[1]] + e[3] : e \in {f \in EdgesOf(g) :
                                        f[2] = n /\ d[f[1]] < Inf}})],
               g, k - 1)

\* the least cost of a path from o to each node, Inf where there is none
ShortestCost(g, o) ==
  Relaxed([n \in NodesOf(g, o) |-> IF n = o THEN 0 ELSE Inf], g,
          Cardinality(NodesOf(g, o)))

KeysOf(d) == {it[1] : it \in Items(d)}

\* the number of places of a sequence that hold x
CountIn(seq, x) == Cardinality({i \in 1..Len(seq) : seq[i] = x})

RECURSIVE SeqCostSum(_)
SeqCostSum(adj) == IF adj = << >> THEN 0 ELSE Head(adj)[2] + SeqCostSum(Tail(adj))

RECURSIVE CostSumOver(_, _)
CostSumOver(g, ks) ==
  IF ks = {} THEN 0
  ELSE LET k == CHOOSE x \in ks : TRUE
       IN SeqCostSum(g[k]) + CostSumOver(g, ks \ {k})

\* the sum of the costs of all adjacency entries: twice that of the sub-edges
TotalCost(g) == CostSumOver(g, DOMAIN g)

\* the places of a row's connectors that resolve in the table
ResolvedPlaces(row, coords) ==
  IF row.null THEN {}
  ELSE {i \in 1..Len(row.connectors) :
          /\ IsDict(row.connectors[i])
          /\ ItemId(row.connectors[i]) \in Keys(coords)}

ResolvedPositions(row, coords) ==
  {ItemAt(row.connectors[i]) : i \in ResolvedPlaces(row, coords)}

\* a step of the build loop has just consumed cur_row'
RowProcessed == pc = "build" /\ rows_done' = rows_done + 1

(***************************************************************************)
(* Properties of _run_dijkstra.                                            *)
(***************************************************************************)
\* C1: when the search has finished, the result map holds exactly the nodes
\* whose least path cost from the origin is <= the budget (a node exactly at
\* the budget included), each with that least cost.
C1_ExactWithinBudget ==
  SearchEnded =>
    LET sc == ShortestCost(graph, origin_id)
    IN Items(reachable) =
         {<<n, sc[n]>> : n \in {m \in DOMAIN sc : sc[m] <= walk_budget_s}}

\* a finished search with a node exactly at the budget and a node that the
\* origin is connected to, but beyond the budget
C1_Witness ==
  /\ SearchEnded
  /\ walk_budget_s > 0
  /\ \E it \in Items(reachable) : it[2] = walk_budget_s
  /\ \E n \in DOMAIN graph :
       /\ n \notin KeysOf(reachable)
       /\ ShortestCost(graph, origin_id)[n] < Inf

\* C2: in every state of the search, every cost in the result map and every
\* cost of a queue entry is <= the walk budget.
C2_CostsWithinBudget ==
  /\ \A it \in Items(reachable) : it[2] <= walk_budget_s
  /\ \A e \in DOMAIN pq : e[1] <= walk_budget_s

\* mid-search: an entry exactly at the budget is queued, and a neighbour of
\* a finalized node was not pushed because it lies beyond the budget
C2_Witness ==
  /\ pc = "dijkstra"
  /\ \E e \in DOMAIN pq : e[1] = walk_budget_s /\ e[1] > 0
  /\ \E it \in Items(reachable) : \E e \in EdgesOf(graph) :
       /\ e[1] = it[1]
       /\ e[2] \notin visited
       /\ it[2] + e[3] > walk_budget_s

\* C3: for every smaller budget B1, the result of the search with B1 on the
\* same graph and origin is a subset of the result found, costs included.
C3_BudgetMonotone ==
  SearchEnded =>
    \A b1 \in Budgets :
      b1 < walk_budget_s =>
        Items(RunDijkstra(graph, origin_id, b1)) \subseteq Items(reachable)

\* a smaller budget reaches at least two nodes and strictly fewer than the
\* larger one
C3_Witness ==
  /\ SearchEnded
  /\ \E b1 \in Budgets :
       /\ b1 < walk_budget_s
       /\ Len(RunDijkstra(graph, origin_id, b1)) >= 2
       /\ Len(RunDijkstra(graph, origin_id, b1)) < Len(reachable)

\* C4: however the heap breaks ties between entries of equal cost, the
\* finished search holds the same node-to-cost map as the run with heapq's
\* own order.
C4_TieIndependent ==
  SearchEnded =>
    Items(reachable) = Items(RunDijkstra(graph, origin_id, walk_budget_s))

\* a run that finalized the nodes in another order than heapq's
C4_Witness ==
  /\ SearchEnded
  /\ reachable # RunDijkstra(graph, origin_id, walk_budget_s)
  /\ Len(reachable) >= 3

(***************************************************************************)
(* Properties of _build_graph.                                             *)
(***************************************************************************)
\* C5: after every row, each adjacency entry (b, cost, len) of a has its
\* mirror (a, cost, len) in b's adjacency, as many times.
C5_Symmetric ==
  \A a \in DOMAIN graph : \A i \in 1..Len(graph[a]) :
    LET e == graph[a][i]
    IN /\ e[1] \in DOMAIN graph
       /\ CountIn(graph[a], e) = CountIn(graph[e[1]], <<a, e[2], e[3]>>)

\* two rows have added the same sub-edge: an entry with multiplicity 2
C5_Witness ==
  /\ rows_done = 2
  /\ \E a \in DOMAIN graph : \E i \in 1..Len(graph[a]) :
       /\ graph[a][i][1] # a
       /\ CountIn(graph[a], graph[a][i]) = 2

\* C6: no node has itself as a neighbour.
C6_NoSelfLoops ==
  \A a \in DOMAIN graph : \A i \in 1..Len(graph[a]) : graph[a][i][1] # a

\* C7: every adjacency entry has cost > 0 and length > 0.
C7_PositiveEdges ==
  \A a \in DOMAIN graph : \A i \in 1..Len(graph[a]) :
    graph[a][i][2] > 0 /\ graph[a][i][3] > 0

\* C8 as claimed: the sub-edge costs of a row that is not skipped sum to
\* length / speed (the adjacency holds each sub-edge twice).
C8_SumIsFullLength ==
  [][(RowProcessed /\ Cardinality(ResolvedPlaces(cur_row', connector_coords)) >= 2)
       => TotalCost(graph') - TotalCost(graph)
            = 2 * (cur_row'.length_m \div walk_speed_ms)]_vars

\* C8 amended: the sub-edge costs of a row that is not skipped sum to
\* length * (largest resolved position - smallest resolved position) / speed.
C8_SumIsResolvedSpan ==
  [][(RowProcessed /\ Cardinality(ResolvedPlaces(cur_row', connector_coords)) >= 2)
       => LET ps == ResolvedPositions(cur_row', connector_coords)
          IN TotalCost(graph') - TotalCost(graph)
               = 2 * (((cur_row'.length_m * (SetMax(ps) - SetMin(ps))) \div PosDen)
                        \div walk_speed_ms)]_vars

\* a row of positive length was processed whose resolved references are
\* given out of order, start after 0 or end before 1, and it added edges
C8_Witness ==
  /\ pc = "build"
  /\ rows_done = 2
  /\ cur_row.length_m > 0
  /\ ~cur_row.null
  /\ Cardinality(ResolvedPlaces(cur_row, connector_coords)) = 3
  /\ LET ps == ResolvedPositions(cur_row, connector_coords)
     IN /\ SetMax(ps) - SetMin(ps) < PosDen
        /\ SetMax(ps) - SetMin(ps) > 0
  /\ \E i \in 1..(Len(cur_row.connectors) - 1) :
       /\ {i, i + 1} \subseteq ResolvedPlaces(cur_row, connector_coords)
       /\ ItemAt(cur_row.connectors[i]) > ItemAt(cur_row.connectors[i + 1])
  /\ edge_count >= 2

DistAt(i) ==
  Haversine(study[1], study[2], connector_coords[i][2], connector_coords[i][3])

\* C10: the locator returns the least distance of a connector to the query
\* point, and the first connector of the table at that distance.
C10_NearestFirst ==
  pc = "dijkstra_start" =>
    LET n == Len(connector_coords)
        least == SetMin({DistAt(i) : i \in 1..n})
        first == SetMin({i \in 1..n : DistAt(i) = least})
    IN /\ origin_dist = least
       /\ origin_id = connector_coords[first][1]

\* the two last connectors of a table of three are both nearest, the first
\* is farther
C10_Witness ==
  /\ pc = "dijkstra_start"
  /\ Len(connector_coords) = 3
  /\ DistAt(2) = DistAt(3)
  /\ DistAt(2) < DistAt(1)
  /\ connector_coords[2][2] # connector_coords[3][2]
  /\ origin_id = connector_coords[2][1]


(***************************************************************************)
(* Properties of the pipeline after the search.                            *)
(***************************************************************************)
\* no cell after _find_origin has run
NothingAfterOrigin ==
  /\ pq = EmptyBag
  /\ reachable = << >>
  /\ visited = {}
  /\ reachable_count = 0
  /\ nodes_explored = 0
  /\ pops = 0
  /\ pushes = 0
  /\ reachable_points = << >>
  /\ bands = << >>
  /\ isochrone_bands = << >>
  /\ geo_calls = 0
  /\ isochrone_area_km2 = 0
  /\ pedshed_ratio = 0

\* C11: the origin locator fails exactly when the connector table is empty:
\* a run is in the failed state only with an empty table, a run with an
\* empty table never gets past the locator, and in the failed state no
\* search, band or ratio computation has run.
C11_FailsIffEmpty ==
  /\ pc = "error" => connector_coords = << >> /\ NothingAfterOrigin
  /\ connector_coords = << >> => pc \in {"build", "origin", "error"}
  /\ connector_coords # << >> => pc # "error"

\* the locator has failed after a build that consumed rows
C11_Witness ==
  /\ pc = "error"
  /\ rows_done = MaxSegs
  /\ skipped_segments > 0

\* the search cell has returned
SearchDone == pc \in {"isochrone", "bands", "pedshed", "done"}

\* the origin has no adjacency entry
IsolatedOrigin == origin_id # None /\ GraphGet(graph, origin_id) = << >>

\* C12: when the origin connector has no graph edges, the search returns
\* for every budget the map holding the origin alone at cost 0, the band
\* builder emits no band, and the pedshed ratio is 0.
C12_IsolatedOrigin ==
  (SearchDone /\ IsolatedOrigin) =>
     /\ reachable = << <<origin_id, 0>> >>
     /\ \A b \in Budgets : RunDijkstra(graph, origin_id, b) = << <<origin_id, 0>> >>
     /\ isochrone_bands = << >>
     /\ geo_calls = 0
     /\ pc = "done" => pedshed_ratio = 0

\* the pipeline has ended from an isolated origin, on a graph with edges
\* elsewhere and a positive budget
C12_Witness ==
  /\ pc = "done"
  /\ IsolatedOrigin
  /\ DOMAIN graph # {}
  /\ walk_budget_s > 0

(***************************************************************************)
(* Properties of _compute_isochrone and _pedshed.                          *)
(***************************************************************************)
\* the band loop has consumed at least one threshold, or has ended
BandsStarted == pc \in {"bands", "pedshed", "done"}

\* C13: in the output band list the thresholds are strictly increasing and
\* the node set of every band contains the node set of every band with a
\* smaller threshold.
C13_BandsNested ==
  /\ Len(band_pts) = Len(isochrone_bands)
  /\ \A i \in 1..Len(isochrone_bands) :
       isochrone_bands[i].node_count = Cardinality(band_pts[i])
  /\ \A i, j \in 1..Len(isochrone_bands) :
       i < j => /\ isochrone_bands[i].band_min < isochrone_bands[j].band_min
                /\ band_pts[i] \subseteq band_pts[j]

\* two bands have been output, the larger with more nodes
C13_Witness ==
  /\ pc = "done"
  /\ Len(isochrone_bands) = 2
  /\ band_pts[1] # band_pts[2]
  /\ band_pts[1] \subseteq band_pts[2]

\* C14 as stated: node_count and area are both non-decreasing along the
\* output band list, whatever the geometry calls did.
C14_CountAndAreaMonotone ==
  \A i, j \in 1..Len(isochrone_bands) :
    i < j => /\ isochrone_bands[i].node_count <= isochrone_bands[j].node_count
             /\ isochrone_bands[i].area_m2 <= isochrone_bands[j].area_m2

\* the geometry call of band i returned
GeoOk(i) == isochrone_bands[i].geojson # GeoNone

\* C14: along the output band list node_count is non-decreasing; the area
\* is non-decreasing along the bands whose geometry call returned, and a
\* band whose call failed has area 0, whatever the areas before it.
C14_CountMonotoneAreaOfSuccesses ==
  \A i, j \in 1..Len(isochrone_bands) :
    /\ ~GeoOk(i) => isochrone_bands[i].area_m2 = 0
    /\ i < j => /\ isochrone_bands[i].node_count <= isochrone_bands[j].node_count
                /\ (GeoOk(i) /\ GeoOk(j)) =>
                     isochrone_bands[i].area_m2 <= isochrone_bands[j].area_m2

\* a band with a positive area is followed by a band whose call failed
C14_Witness ==
  /\ pc = "done"
  /\ Len(isochrone_bands) = 2
  /\ GeoOk(1) /\ ~GeoOk(2)
  /\ isochrone_bands[1].area_m2 > isochrone_bands[2].area_m2
  /\ isochrone_bands[1].node_count < isochrone_bands[2].node_count

\* C15: a threshold that selects fewer than 3 points produces no band and
\* no geometry call: the calls made are as many as the bands output, every
\* band has node_count >= 3, and no band carries a consumed threshold that
\* selects fewer than 3 points.
C15_SmallBandsSkipped ==
  BandsStarted =>
    /\ geo_calls = Len(isochrone_bands)
    /\ \A i \in 1..Len(isochrone_bands) : isochrone_bands[i].node_count >= 3
    /\ \A k \in 1..bi :
         Len(PointsWithin(reachable_points, bands[k] * 60)) < 3 =>
           \A i \in 1..Len(isochrone_bands) : isochrone_bands[i].band_min # bands[k]

\* a threshold with two points has been skipped and a later one output
C15_Witness ==
  /\ pc = "done"
  /\ Len(bands) = 2
  /\ Len(PointsWithin(reachable_points, bands[1] * 60)) = 2
  /\ Len(isochrone_bands) = 1
  /\ isochrone_bands[1].band_min = bands[2]
  /\ geo_calls = 1

\* the thresholds consumed so far that select at least 3 points, in order
EligibleBands ==
  SelectSeq(SubSeq(bands, 1, bi),
            LAMBDA m : Len(PointsWithin(reachable_points, m * 60)) >= 3)

\* C16: a geometry call that fails for one band does not abort the
\* computation: every consumed threshold that selects at least 3 points has
\* its record, in order; the record of a failed band has a null polygon,
\* area 0 in m2, ha and km2, and the threshold and node_count of its band;
\* the record of every other band has the hull and the area of its own
\* points, whatever happened to the bands before or after it.
C16_FailureIsLocal ==
  BandsStarted =>
    /\ Len(isochrone_bands) = Len(EligibleBands)
    /\ \A i \in 1..Len(isochrone_bands) :
         LET b == isochrone_bands[i]
             pts == PointsWithin(reachable_points, EligibleBands[i] * 60)
         IN /\ b.band_min = EligibleBands[i]
            /\ b.band_s = EligibleBands[i] * 60
            /\ b.node_count = Len(pts)
            /\ b.geojson = GeoNone =>
                 b.area_m2 = 0 /\ b.area_ha = 0 /\ b.area_km2 = 0
            /\ b.geojson # GeoNone =>
                 /\ b.geojson = PointIds(pts)
                 /\ b.area_m2 = HullArea(pts)
                 /\ b.area_ha \div HaDen = b.area_m2 \div 10000
                 /\ b.area_ha % HaDen = b.area_m2 % 10000
                 /\ b.area_km2 \div KmDen = b.area_m2 \div 1000000
                 /\ b.area_km2 % KmDen = b.area_m2 % 1000000

\* the call of the first band failed, the band is recorded, and the second
\* band has been computed after it with a positive area
C16_Witness ==
  /\ pc = "done"
  /\ Len(isochrone_bands) = 2
  /\ isochrone_bands[1].geojson = GeoNone
  /\ isochrone_bands[1].node_count = 3
  /\ isochrone_bands[2].geojson # GeoNone
  /\ isochrone_bands[2].area_m2 > 0

\* C17: the thresholds are ascending, none exceeds the budget's minute
\* equivalent, the last one times 60 is the walk budget in seconds, and the
\* last one selects every reachable node.
C17_LastBandIsBudget ==
  BandsStarted =>
    /\ \A i, j \in 1..Len(bands) : i < j => bands[i] < bands[j]
    /\ \A i \in 1..Len(bands) : bands[i] * 60 <= walk_budget_s
    /\ bands # << >>
    /\ bands[Len(bands)] * 60 = walk_budget_s
    /\ Len(PointsWithin(reachable_points, bands[Len(bands)] * 60)) = Len(reachable)

\* the budget (7 minutes) is not a default threshold and was appended; a
\* point lies beyond the last default threshold and within the budget
C17_Witness ==
  /\ BandsStarted
  /\ walk_budget_s = 420
  /\ bands = <<5, 7>>
  /\ \E i \in 1..Len(reachable_points) :
       /\ reachable_points[i].cost_s > 300
       /\ reachable_points[i].cost_s <= 420
  /\ Len(PointsWithin(reachable_points, 300)) < Len(reachable)

\* the quotient q with remainder r by den, carried on by k decimal places
RECURSIVE LongDiv(_, _, _, _)
LongDiv(q, r, den, k) ==
  IF k = 0 THEN q
  ELSE LongDiv(q * 10 + (r * 10) \div den, (r * 10) % den, den, k - 1)

\* area / KmDen km2 over circle m2, in hundredths, rounded down
HundredthsOf(area, circle) ==
  LongDiv((area * (1000000 \div KmDen)) \div circle,
          (area * (1000000 \div KmDen)) % circle, circle, 2)

\* C18: the pedshed ratio (in hundredths, rounded down) is the area of the
\* last band divided by the circle area when the circle area is positive
\* and a band exists, without clamping; it is 0 when the circle area is 0
\* or no band was produced; it is never negative.
C18_RatioIsQuotient ==
  pc = "done" =>
    LET circle == CircleArea(walk_speed_ms, walk_budget_s)
        n == Len(isochrone_bands)
    IN /\ (circle > 0 /\ n > 0) =>
            pedshed_ratio = HundredthsOf(isochrone_bands[n].area_km2, circle)
       /\ (circle = 0 \/ n = 0) => pedshed_ratio = 0
       /\ pedshed_ratio >= 0

\* a ratio above 1 has been returned
C18_Witness ==
  /\ pc = "done"
  /\ pedshed_ratio > 100
  /\ isochrone_bands # << >>

\* a band with a positive area exists and the circle area is 0
C18_WitnessZeroCircle ==
  /\ pc = "done"
  /\ walk_budget_s = 0
  /\ isochrone_bands # << >>
  /\ isochrone_area_km2 > 0
  /\ pedshed_ratio = 0

\* C19 as stated: whenever the connector table is not empty, whatever the
\* segments and whatever the geometry calls do, the pipeline never ends in
\* the failed state and runs on until the ratio cell has returned, with a
\* reachable-node map that holds the origin and a band list.  A row whose
\* resolving reference has "at" None, or whose length_m is None beside a
\* positive span, ends the build in the failed state.
C19_RunsToCompletion ==
  /\ [](connector_coords # << >> => pc # "error")
  /\ (connector_coords # << >>) ~> (pc = "done" /\ reachable # << >>)

(***************************************************************************)
(* Properties of the sub-edges of one row.                                 *)
(***************************************************************************)
\* the resolving references of the row lie at pairwise distinct positions
DistinctResolved(row, coords) ==
  \A p, q \in ResolvedPlaces(row, coords) :
    p # q => ItemAt(row.connectors[p]) # ItemAt(row.connectors[q])

\* the pairs of resolving places that are neighbours in position order
ConsecutivePlaces(row, coords) ==
  LET P == ResolvedPlaces(row, coords)
      at(i) == ItemAt(row.connectors[i])
  IN {pr \in P \X P :
        /\ at(pr[1]) < at(pr[2])
        /\ ~\E r \in P : at(pr[1]) < at(r) /\ at(r) < at(pr[2])}

\* segment length times position delta, in metres
SubLength(row, pr) ==
  (row.length_m * (ItemAt(row.connectors[pr[2]]) - ItemAt(row.connectors[pr[1]])))
    \div PosDen

\* how many times the sub-edges of the row put entry e in the list of n
ExpectedEntries(row, coords, speed, n, e) ==
  Cardinality({pr \in ConsecutivePlaces(row, coords) :
                 /\ ItemId(row.connectors[pr[1]]) = n
                 /\ e = <<ItemId(row.connectors[pr[2]]),
                          SubLength(row, pr) \div speed, SubLength(row, pr)>>})
  + Cardinality({pr \in ConsecutivePlaces(row, coords) :
                   /\ ItemId(row.connectors[pr[2]]) = n
                   /\ e = <<ItemId(row.connectors[pr[1]]),
                            SubLength(row, pr) \div speed, SubLength(row, pr)>>})

RECURSIVE EntryTotal(_, _)
EntryTotal(g, ks) ==
  IF ks = {} THEN 0
  ELSE LET k == CHOOSE x \in ks : TRUE
       IN Len(g[k]) + EntryTotal(g, ks \ {k})

\* C20: a row with k >= 2 resolving references at pairwise distinct
\* positions adds exactly k-1 sub-edges: the edge counter grows by k-1, the
\* adjacency lists grow by 2(k-1) entries, and the entries added are, in
\* both directions, those of the pairs that are neighbours in position
\* order, with length = segment length * position delta; nothing is added
\* between connectors that are not neighbours.
C20_ConsecutiveSubEdges ==
  [][(/\ RowProcessed
      /\ ~cur_row'.null
      /\ Cardinality(ResolvedPlaces(cur_row', connector_coords)) >= 2
      /\ DistinctResolved(cur_row', connector_coords))
     => LET k == Cardinality(ResolvedPlaces(cur_row', connector_coords))
        IN /\ edge_count' = edge_count + (k - 1)
           /\ Cardinality(ConsecutivePlaces(cur_row', connector_coords)) = k - 1
           /\ EntryTotal(graph', DOMAIN graph') = EntryTotal(graph, DOMAIN graph) + 2 * (k - 1)
           /\ \A n \in DOMAIN graph' :
                \A i \in 1..Len(graph'[n]) :
                  CountIn(graph'[n], graph'[n][i]) - CountIn(GraphGet(graph, n), graph'[n][i])
                    = ExpectedEntries(cur_row', connector_coords, walk_speed_ms,
                                      n, graph'[n][i])]_vars

\* a row of three resolving references, listed out of position order on a
\* segment of positive length, has just added its two sub-edges
C20_Witness ==
  /\ pc = "build"
  /\ rows_done = MaxSegs
  /\ ~cur_row.null
  /\ Cardinality(ResolvedPlaces(cur_row, connector_coords)) = 3
  /\ DistinctResolved(cur_row, connector_coords)
  /\ ItemAt(cur_row.connectors[1]) > ItemAt(cur_row.connectors[2])
  /\ cur_row.length_m > 0
  /\ edge_count >= 2

(***************************************************************************)
(* Properties of the order of a row's references.                          *)
(***************************************************************************)
\* p put behind every pair of s whose position is not larger
RECURSIVE StableInsert(_, _)
StableInsert(p, s) ==
  IF s = << >> THEN <<p>>
  ELSE IF p[1] < Head(s)[1] THEN <<p>> \o s
  ELSE <<Head(s)>> \o StableInsert(p, Tail(s))

\* the pairs sorted by position alone, equal positions in list order
RECURSIVE StablePairs(_)
StablePairs(s) ==
  IF s = << >> THEN << >>
  ELSE StableInsert(s[Len(s)], StablePairs(SubSeq(s, 1, Len(s) - 1)))

\* C21 as stated: the sub-edges a row adds are those of the neighbouring
\* pairs of its resolving references sorted by position alone, references
\* at equal positions keeping their list order, whatever the identifiers.
C21_StableOrder ==
  [][(RowProcessed /\ ~TooFewRefs(cur_row', connector_coords))
     => graph' = AddSubEdges([graph |-> graph, edge_count |-> edge_count,
                              skipped_segments |-> skipped_segments],
                             StablePairs(Resolve(cur_row'.connectors, connector_coords)),
                             1, cur_row'.length_m, walk_speed_ms).graph]_vars

\* C22 as stated: every row that contributes no edge is counted as skipped,
\* and only such a row: a step of the build loop adds 1 to the skipped
\* counter exactly when it adds no sub-edge.
C22_NoEdgeIsSkipped ==
  [][RowProcessed
     => skipped_segments' =
          skipped_segments + (IF edge_count' = edge_count THEN 1 ELSE 0)]_vars

(***************************************************************************)
(* Properties of the steps of _run_dijkstra.                               *)
(***************************************************************************)
\* a step of the while loop has just popped HeapMin(pq)
Popped == pc = "dijkstra" /\ pops' = pops + 1

\* C23: every node is finalized at most once: the result map never holds a
\* node twice, no step changes or removes an entry written before, and a
\* pop of a duplicate entry for a finalized node only removes that entry:
\* the result map and the visited set stay as they are and nothing is
\* pushed.
C23_LazyDeletion ==
  [][/\ Len(reachable') >= Len(reachable)
     /\ \A i \in 1..Len(reachable) : reachable'[i] = reachable[i]
     /\ \A i, j \in 1..Len(reachable') :
          i # j => reachable'[i][1] # reachable'[j][1]
     /\ (Popped /\ HeapMin(pq)[2] \in visited)
          => /\ reachable' = reachable
             /\ visited' = visited
             /\ pushes' = pushes
             /\ BagSize(pq') = BagSize(pq) - 1
             /\ \A x \in DOMAIN pq' : x \in DOMAIN pq /\ pq'[x] <= pq[x]]_vars

\* a duplicate entry has been popped and discarded, and the search went on
C23_Witness ==
  /\ pc = "dijkstra"
  /\ pops > Cardinality(visited)
  /\ Len(reachable) >= 2
  /\ DOMAIN pq # {}

\* C24: nodes are finalized in non-decreasing order of cost: the costs of
\* the result map do not decrease in the order of writing, and every entry
\* still in the queue costs at least as much as every finalized node.
C24_FinalizedInCostOrder ==
  /\ \A i, j \in 1..Len(reachable) : i < j => reachable[i][2] <= reachable[j][2]
  /\ pc = "dijkstra" =>
       \A e \in DOMAIN pq : \A i \in 1..Len(reachable) : e[1] >= reachable[i][2]

\* three nodes have been finalized at increasing costs, entries remain
C24_Witness ==
  /\ pc = "dijkstra"
  /\ Len(reachable) = 3
  /\ reachable[1][2] < reachable[2][2]
  /\ reachable[2][2] < reachable[3][2]
  /\ DOMAIN pq # {}

\* C25: the search terminates: once started it reaches the end of the
\* loop with an empty queue, and the entries ever pushed are at most 1 plus
\* the directed adjacency entries of the graph.
C25_SearchTerminates ==
  /\ [](pushes <= 1 + EntryTotal(graph, DOMAIN graph))
  /\ (pc = "dijkstra") ~> (pc = "isochrone" /\ pq = EmptyBag)

\* the search has ended on a graph with a zero-cost edge and a self-loop,
\* after pushing duplicate entries
C25_Witness ==
  /\ pc = "isochrone"
  /\ pq = EmptyBag
  /\ pushes > Cardinality(visited)
  /\ pops = pushes
  /\ \E n \in DOMAIN graph : \E i \in 1..Len(graph[n]) : graph[n][i][2] = 0
  /\ \E n \in DOMAIN graph : \E i \in 1..Len(graph[n]) : graph[n][i][1] = n

\* C26: the search leaves the graph unchanged: no step of it changes the
\* key set or an adjacency list, also when the node whose neighbours are
\* read has no entry, and after it the graph has as many nodes as the
\* build counted.
C26_GraphUnchanged ==
  [][/\ pc \in {"dijkstra_start", "dijkstra"}
          => (graph' = graph /\ graph_node_count' = graph_node_count)
     /\ SearchDone' => Cardinality(DOMAIN graph') = graph_node_count']_vars

\* the search has ended from an origin without adjacency entry, on a graph
\* that has entries for other nodes
C26_Witness ==
  /\ pc = "isochrone"
  /\ origin_id \notin DOMAIN graph
  /\ DOMAIN graph # {}
  /\ pops = 1

\* C28: when the band list is not empty its last record is the band of
\* the budget's minutes, which is the largest threshold and does not exceed
\* the budget, and the area of that record is the area handed on and the
\* numerator of the pedshed ratio.
C28_RatioUsesBudgetBand ==
  (pc \in {"pedshed", "done"} /\ isochrone_bands # << >>) =>
    LET last == isochrone_bands[Len(isochrone_bands)]
    IN /\ last.band_min = BudgetMin(walk_budget_s)
       /\ last.band_s <= walk_budget_s
       /\ \A i \in 1..Len(bands) : bands[i] <= last.band_min
       /\ \A i \in 1..Len(isochrone_bands) :
            isochrone_bands[i].band_min <= last.band_min
       /\ isochrone_area_km2 = last.area_km2
       /\ pc = "done" =>
            pedshed_ratio = PedshedRatio(last.area_km2,
                                         CircleArea(walk_speed_ms, walk_budget_s))

\* the ratio has been computed from two bands of different areas, the last
\* one at the budget's minutes, which are not among the default thresholds
C28_Witness ==
  /\ pc = "done"
  /\ Len(isochrone_bands) = 2
  /\ isochrone_bands[2].band_min = 7
  /\ isochrone_bands[1].band_min = 5
  /\ isochrone_bands[1].area_km2 > 0
  /\ isochrone_bands[2].area_km2 > isochrone_bands[1].area_km2
  /\ pedshed_ratio > 0

\* the thresholds whose iteration of the band loop has run
BandsTried == {bands[i] : i \in 1..bi}

\* C29 as stated: with an origin that has no graph edge, the points the
\* band builder selects for a threshold above 0 are none.
C29_IsolatedSelectsNothing ==
  (pc \in {"bands", "pedshed", "done"} /\ IsolatedOrigin) =>
    \A bm \in BandsTried :
      bm > 0 => Len(PointsWithin(reachable_points, bm * 60)) = 0

\* C29: with an origin that has no graph edge, the points the band builder
\* selects for every threshold, 0 included, are the origin alone: fewer
\* than 3, so that no band is appended and the service is never called.
C29_IsolatedSelectsOrigin ==
  (pc \in {"bands", "pedshed", "done"} /\ IsolatedOrigin) =>
    /\ \A bm \in BandsTried :
         /\ PointIds(PointsWithin(reachable_points, bm * 60)) = {origin_id}
         /\ Len(PointsWithin(reachable_points, bm * 60)) = 1
         /\ BandTooSmall(Len(PointsWithin(reachable_points, bm * 60)))
    /\ isochrone_bands = << >>
    /\ geo_calls = 0

\* the band loop has run on a threshold above 0 for an origin without
\* edges in a graph that has edges elsewhere
C29_Witness ==
  /\ pc = "bands"
  /\ IsolatedOrigin
  /\ DOMAIN graph # {}
  /\ bi >= 1
  /\ bands[1] > 0

\* C30: when the search has ended, the explored count is the number of
\* nodes marked visited and equals the number of entries of the result map,
\* whatever the number of pops; every graph node and the origin are keys of
\* the table, so that reachable_points holds one record per entry of the
\* result map, in its order.
C30_ExploredEqualsReachable ==
  SearchDone =>
    /\ nodes_explored = Cardinality(visited)
    /\ nodes_explored = Len(reachable)
    /\ reachable_count = Len(reachable)
    /\ pops >= nodes_explored
    /\ DOMAIN graph \subseteq Keys(connector_coords)
    /\ origin_id \in Keys(connector_coords)
    /\ Len(reachable_points) = Len(reachable)
    /\ \A i \in 1..Len(reachable) :
         /\ reachable_points[i].id = reachable[i][1]
         /\ reachable_points[i].cost_s = reachable[i][2]

\* the search has ended after popping a stale duplicate, on a graph of two
\* parallel edges built with the table that lacks "C"
C30_Witness ==
  /\ pc = "isochrone"
  /\ pops > nodes_explored
  /\ nodes_explored = 2
  /\ Len(reachable_points) = 2
  /\ connector_coords = BuildTable
  /\ edge_count = 2

=============================================================================
